---- MODULE Spec2Model ----
(***************************************************************************)
(* The buffer pool of lab/BufferManager: DiskManager (disk_manager.py),    *)
(* BufferFrame and BufferManager (step03_with_buffer_manager.py) and       *)
(* UserAwareBufferManager (step05_bufferLLMemory.py).                      *)
(*                                                                         *)
(* A page's records are abstracted to a content value: 0 is the page with  *)
(* no record (what a zero-filled block decodes to), 1.. are record lists.  *)
(* The backing file is a sequence of whole pages; page i of the file is    *)
(* file[i + 1].                                                            *)
(***************************************************************************)
EXTENDS Integers, Sequences, FiniteSets, TLC

\* ------------------------------------------------------------------ bounds
MaxPoolSize == 2
\* page ids requested are 0..MaxPageId; the file holds fewer pages than that
MaxPageId == 3
\* get_page / get_llm_page calls per behaviour
MaxCalls == 3
\* a page's content is 0 (no record) or a version 1..MaxContent of its records;
\* the file starts with version 1 and every change by a caller gives a version
\* that is in no frame and nowhere in the file
MaxContent == 2
\* the wall clock, in minutes, runs over 0..MaxTime
MaxTime == 6

PoolSizes == 1..MaxPoolSize
PageIds == 0..MaxPageId
Contents == 0..MaxContent
BasePolicies == {"FIFO", "LRU", "CLOCK"}
UserIds == {"alice", "bob"}

\* Python's None, for a frame id, a page id, a page and a return value
None == -1

\* outcomes of one write_page call: success, or an IOError/OSError
WriteOutcomes == {"ok", "fail"}

VARIABLES
  pool_size, policy,          \* BufferManager.pool_size, .policy
  frames,                     \* BufferManager.frames: frame id -> BufferFrame
  page_table,                 \* BufferManager.page_table: page id -> frame id
  free_frames,                \* BufferManager.free_frames (a list)
  access_counter, clock_hand, \* replacement policy state
  hits, misses, evictions,    \* statistics
  disk,                       \* the DiskManager: its file and its counters
  last,                       \* the last call: its arguments, result and I/O
  requested,                  \* page ids passed to get_page (SpecNoFault),
                              \* or written with write_page (SpecDiskWrites,
                              \* SpecSparse)
  user_sessions,              \* UserAwareBufferManager.user_sessions
  user_allocations,           \* UserAwareBufferManager.user_allocations
  active_user_evictions,      \* UserAwareBufferManager.active_user_evictions
  now                         \* datetime.now(), in minutes

baseVars == <<pool_size, policy, frames, page_table, free_frames,
              access_counter, clock_hand, hits, misses, evictions, disk>>
userVars == <<user_sessions, user_allocations, active_user_evictions, now>>
vars == <<baseVars, last, requested, userVars>>

\* ------------------------------------------------------------ BufferFrame
\* BufferFrame.__init__
BufferFrame(i) ==
  [frame_id |-> i, page |-> None, page_id |-> None, is_dirty |-> FALSE,
   last_accessed |-> 0, access_frequency |-> 0, clock_bit |-> FALSE]

\* BufferFrame.is_free
is_free(frame) == frame.page = None

\* ------------------------------------------------------------ DiskManager
\* DiskManager.__init__ on a file of n pages, each holding records
DiskManager(n) ==
  [file |-> [i \in 1..n |-> 1], read_count |-> 0, write_count |-> 0,
   bytes_read |-> 0, bytes_written |-> 0]

\* a page of PAGE_SIZE zero bytes, as write_page's extension leaves it
ZeroPage == 0

\* the file after write_page's extension with zero bytes, seek and write
FileWrite(file, page_id, content) ==
  [i \in 1..(IF Len(file) > page_id THEN Len(file) ELSE page_id + 1) |->
     IF i = page_id + 1 THEN content
     ELSE IF i <= Len(file) THEN file[i] ELSE ZeroPage]

PAGE_SIZE == 4096

\* DiskManager.read_page for which a page of zero bytes is absent
read_page_zero_absent(d, page_id, ok) ==
  IF ok /\ page_id < Len(d.file) /\ d.file[page_id + 1] # ZeroPage
  THEN <<d.file[page_id + 1],
         [d EXCEPT !.read_count = @ + 1, !.bytes_read = @ + PAGE_SIZE]>>
  ELSE <<None, d>>

\* DiskManager.read_page that counts the reads that return None as well
read_page_counts_calls(d, page_id, ok) ==
  LET counted == [d EXCEPT !.read_count = @ + 1,
                           !.bytes_read = @ + PAGE_SIZE]
  IN IF ok /\ page_id < Len(d.file)
     THEN <<d.file[page_id + 1], counted>>
     ELSE <<None, counted>>

\* DiskManager.read_page: <<the page read or None, the DiskManager after>>.
\* ok = FALSE is an IOError/OSError raised by open, seek or read.
read_page(d, page_id, ok) ==
  IF ok /\ page_id < Len(d.file)
  THEN <<d.file[page_id + 1],
         [d EXCEPT !.read_count = @ + 1, !.bytes_read = @ + PAGE_SIZE]>>
  ELSE <<None, d>>

\* DiskManager.write_page: <<True/False, the DiskManager after>>
write_page(d, page_id, content, outcome) ==
  CASE outcome = "ok" ->
         <<TRUE, [d EXCEPT !.file = FileWrite(d.file, page_id, content),
                           !.write_count = @ + 1,
                           !.bytes_written = @ + PAGE_SIZE]>>
    [] OTHER -> <<FALSE, d>>

\* ---------------------------------------------------------- BufferManager
\* The object and what one call has done so far, as one record: the fields
\* of self, the DiskManager, the call's return value (ret), the frame the
\* call obtained (frame_id), the frame and page it evicted (victim_frame,
\* victim_page), its disk calls in order (io) and the number of frames its
\* victim search has looked at (inspected).
Self ==
  [pool_size |-> pool_size, policy |-> policy, frames |-> frames,
   page_table |-> page_table, free_frames |-> free_frames,
   access_counter |-> access_counter, clock_hand |-> clock_hand,
   hits |-> hits, misses |-> misses, evictions |-> evictions, disk |-> disk,
   user_sessions |-> user_sessions, user_allocations |-> user_allocations,
   active_user_evictions |-> active_user_evictions,
   ret |-> None, frame_id |-> None, victim_frame |-> None,
   victim_page |-> None, io |-> <<>>, inspected |-> 0]

\* del d[k]
DictDel(d, k) == [x \in DOMAIN d \ {k} |-> d[x]]

\* d[k] = v
DictSet(d, k, v) == [x \in DOMAIN d \cup {k} |-> IF x = k THEN v ELSE d[x]]

\* _write_back_and_clear_frame without `del self.page_table[frame.page_id]`
write_back_and_clear_frame_keeps_entry(s, frame_id, wout) ==
  LET frame == s.frames[frame_id]
      w == write_page(s.disk, frame.page_id, frame.page, wout)
      s1 == IF frame.is_dirty /\ frame.page # None
            THEN [s EXCEPT !.disk = w[2],
                           !.io = Append(@, [op |-> "write",
                                             page_id |-> frame.page_id,
                                             content |-> frame.page,
                                             ok |-> w[1]])]
            ELSE s
  IN [s1 EXCEPT !.frames[frame_id].page = None,
                !.frames[frame_id].page_id = None,
                !.frames[frame_id].is_dirty = FALSE,
                !.frames[frame_id].access_frequency = 0,
                !.evictions = @ + 1,
                !.victim_frame = frame_id,
                !.victim_page = frame.page_id]

\* _write_back_and_clear_frame without the write of a dirty page
write_back_and_clear_frame_no_write(s, frame_id, wout) ==
  LET frame == s.frames[frame_id]
      s2 == IF frame.page_id # None /\ frame.page_id \in DOMAIN s.page_table
            THEN [s EXCEPT !.page_table = DictDel(@, frame.page_id)]
            ELSE s
  IN [s2 EXCEPT !.frames[frame_id].page = None,
                !.frames[frame_id].page_id = None,
                !.frames[frame_id].is_dirty = FALSE,
                !.frames[frame_id].access_frequency = 0,
                !.evictions = @ + 1,
                !.victim_frame = frame_id,
                !.victim_page = frame.page_id]

\* _write_back_and_clear_frame that leaves the dirty flag as it is
write_back_and_clear_frame_keeps_dirty(s, frame_id, wout) ==
  LET frame == s.frames[frame_id]
      w == write_page(s.disk, frame.page_id, frame.page, wout)
      s1 == IF frame.is_dirty /\ frame.page # None
            THEN [s EXCEPT !.disk = w[2],
                           !.io = Append(@, [op |-> "write",
                                             page_id |-> frame.page_id,
                                             content |-> frame.page,
                                             ok |-> w[1]])]
            ELSE s
      s2 == IF frame.page_id # None /\ frame.page_id \in DOMAIN s1.page_table
            THEN [s1 EXCEPT !.page_table = DictDel(@, frame.page_id)]
            ELSE s1
  IN [s2 EXCEPT !.frames[frame_id].page = None,
                !.frames[frame_id].page_id = None,
                !.frames[frame_id].access_frequency = 0,
                !.evictions = @ + 1,
                !.victim_frame = frame_id,
                !.victim_page = frame.page_id]

\* BufferManager._write_back_and_clear_frame
write_back_and_clear_frame(s, frame_id, wout) ==
  LET frame == s.frames[frame_id]
      w == write_page(s.disk, frame.page_id, frame.page, wout)
      s1 == IF frame.is_dirty /\ frame.page # None
            THEN [s EXCEPT !.disk = w[2],
                           !.io = Append(@, [op |-> "write",
                                             page_id |-> frame.page_id,
                                             content |-> frame.page,
                                             ok |-> w[1]])]
            ELSE s
      s2 == IF frame.page_id # None /\ frame.page_id \in DOMAIN s1.page_table
            THEN [s1 EXCEPT !.page_table = DictDel(@, frame.page_id)]
            ELSE s1
  IN [s2 EXCEPT !.frames[frame_id].page = None,
                !.frames[frame_id].page_id = None,
                !.frames[frame_id].is_dirty = FALSE,
                !.frames[frame_id].access_frequency = 0,
                !.evictions = @ + 1,
                !.victim_frame = frame_id,
                !.victim_page = frame.page_id]

\* BufferManager._get_free_frame: list.pop() takes the last element
get_free_frame(s) ==
  IF s.free_frames # <<>>
  THEN [s EXCEPT !.free_frames = SubSeq(@, 1, Len(@) - 1),
                 !.ret = s.free_frames[Len(s.free_frames)]]
  ELSE [s EXCEPT !.ret = None]

\* BufferManager._evict_fifo: the first frame, by frame id, that holds a page
evict_fifo(s, wout) ==
  LET occupied == {i \in DOMAIN s.frames : s.frames[i].page # None}
      first == CHOOSE i \in occupied : \A j \in occupied : i <= j
  IN IF occupied = {}
     THEN [s EXCEPT !.ret = None, !.inspected = s.pool_size]
     ELSE [write_back_and_clear_frame(s, first, wout)
             EXCEPT !.ret = first, !.inspected = first + 1]

\* the loop of BufferManager._evict_clock, from the current clock hand
RECURSIVE clock_loop(_, _, _)
clock_loop(s, start_hand, wout) ==
  LET frame == s.frames[s.clock_hand]
      s1 == [s EXCEPT !.clock_hand = (s.clock_hand + 1) % s.pool_size,
                      !.inspected = @ + 1]
  IN IF is_free(frame)
     THEN [s1 EXCEPT !.ret = frame.frame_id]
     ELSE IF frame.clock_bit
     THEN LET s2 == [s1 EXCEPT !.frames[frame.frame_id].clock_bit = FALSE]
          IN IF s2.clock_hand = start_hand
             THEN [s2 EXCEPT !.ret = None]
             ELSE clock_loop(s2, start_hand, wout)
     ELSE [write_back_and_clear_frame(s1, frame.frame_id, wout)
             EXCEPT !.ret = frame.frame_id]

\* _evict_clock that starts every scan at frame 0: the hand does not persist
evict_clock_from_zero(s, wout) ==
  clock_loop([s EXCEPT !.clock_hand = 0], 0, wout)

\* _evict_clock that goes round a second time when the first revolution
\* found every reference bit set
evict_clock_second_revolution(s, wout) ==
  LET t == clock_loop(s, s.clock_hand, wout)
  IN IF t.ret = None THEN clock_loop(t, t.clock_hand, wout) ELSE t

\* BufferManager._evict_clock
evict_clock(s, wout) == clock_loop(s, s.clock_hand, wout)

\* BufferManager._evict_lru: the search and the eviction are left as `...`,
\* so victim_frame_id stays None and nothing is evicted
evict_lru(s, wout) == [s EXCEPT !.ret = None]

\* BufferManager._evict_page
evict_page(s, wout) ==
  IF s.policy = "LRU" THEN evict_lru(s, wout)
  ELSE IF s.policy = "CLOCK" THEN evict_clock(s, wout)
  ELSE evict_fifo(s, wout)

\* list.append(x) unless x is in the list
AppendIfAbsent(list, x) ==
  IF \E i \in DOMAIN list : list[i] = x THEN list ELSE Append(list, x)

\* _load_page_from_disk that, on a failed read, does not return the frame
\* to the free list
load_page_from_disk_leaks_frame(s, page_id, rok, wout) ==
  LET s1 == get_free_frame(s)
      s2 == IF s1.ret = None THEN evict_page(s1, wout) ELSE s1
      frame_id == s2.ret
      r == read_page(s2.disk, page_id, rok)
      s3 == [s2 EXCEPT !.disk = r[2], !.frame_id = frame_id,
                       !.io = Append(@, [op |-> "read", page_id |-> page_id,
                                         content |-> r[1],
                                         ok |-> r[1] # None])]
  IN IF frame_id = None
     THEN [s2 EXCEPT !.ret = None]
     ELSE IF r[1] = None
     THEN [s3 EXCEPT !.ret = None]
     ELSE [s3 EXCEPT !.frames[frame_id].page = r[1],
                     !.frames[frame_id].page_id = page_id,
                     !.frames[frame_id].is_dirty = FALSE,
                     !.frames[frame_id].last_accessed = s3.access_counter,
                     !.frames[frame_id].access_frequency = 1,
                     !.page_table = DictSet(@, page_id, frame_id),
                     !.ret = r[1]]

\* _load_page_from_disk that enters the page in the page table before the
\* read and leaves the entry when the read fails
load_page_from_disk_stale_entry(s, page_id, rok, wout) ==
  LET s1 == get_free_frame(s)
      s2 == IF s1.ret = None THEN evict_page(s1, wout) ELSE s1
      frame_id == s2.ret
      r == read_page(s2.disk, page_id, rok)
      s3 == [s2 EXCEPT !.disk = r[2], !.frame_id = frame_id,
                       !.page_table = DictSet(@, page_id, frame_id),
                       !.io = Append(@, [op |-> "read", page_id |-> page_id,
                                         content |-> r[1],
                                         ok |-> r[1] # None])]
  IN IF frame_id = None
     THEN [s2 EXCEPT !.ret = None]
     ELSE IF r[1] = None
     THEN [s3 EXCEPT !.free_frames = AppendIfAbsent(@, frame_id),
                     !.ret = None]
     ELSE [s3 EXCEPT !.frames[frame_id].page = r[1],
                     !.frames[frame_id].page_id = page_id,
                     !.frames[frame_id].is_dirty = FALSE,
                     !.frames[frame_id].last_accessed = s3.access_counter,
                     !.frames[frame_id].access_frequency = 1,
                     !.ret = r[1]]

\* _load_page_from_disk that evicts whenever a frame holds a page, and takes
\* a free frame only from an empty pool
load_page_from_disk_evicts_first(s, page_id, rok, wout) ==
  LET s1 == IF \E i \in DOMAIN s.frames : s.frames[i].page # None
            THEN [s EXCEPT !.ret = None]
            ELSE get_free_frame(s)
      s2 == IF s1.ret = None THEN evict_page(s1, wout) ELSE s1
      frame_id == s2.ret
      r == read_page(s2.disk, page_id, rok)
      s3 == [s2 EXCEPT !.disk = r[2], !.frame_id = frame_id,
                       !.io = Append(@, [op |-> "read", page_id |-> page_id,
                                         content |-> r[1],
                                         ok |-> r[1] # None])]
  IN IF frame_id = None
     THEN [s2 EXCEPT !.ret = None]
     ELSE IF r[1] = None
     THEN [s3 EXCEPT !.free_frames = AppendIfAbsent(@, frame_id),
                     !.ret = None]
     ELSE [s3 EXCEPT !.frames[frame_id].page = r[1],
                     !.frames[frame_id].page_id = page_id,
                     !.frames[frame_id].is_dirty = FALSE,
                     !.frames[frame_id].last_accessed = s3.access_counter,
                     !.frames[frame_id].access_frequency = 1,
                     !.page_table = DictSet(@, page_id, frame_id),
                     !.ret = r[1]]

\* _load_page_from_disk that reads a second time when the read fails
load_page_from_disk_retries_read(s, page_id, rok, wout) ==
  LET s1 == get_free_frame(s)
      s2 == IF s1.ret = None THEN evict_page(s1, wout) ELSE s1
      frame_id == s2.ret
      r == read_page(s2.disk, page_id, rok)
      read == [op |-> "read", page_id |-> page_id, content |-> r[1],
               ok |-> r[1] # None]
      s3 == [s2 EXCEPT !.disk = r[2], !.frame_id = frame_id,
                       !.io = IF r[1] = None THEN Append(Append(@, read), read)
                              ELSE Append(@, read)]
  IN IF frame_id = None
     THEN [s2 EXCEPT !.ret = None]
     ELSE IF r[1] = None
     THEN [s3 EXCEPT !.free_frames = AppendIfAbsent(@, frame_id),
                     !.ret = None]
     ELSE [s3 EXCEPT !.frames[frame_id].page = r[1],
                     !.frames[frame_id].page_id = page_id,
                     !.frames[frame_id].is_dirty = FALSE,
                     !.frames[frame_id].last_accessed = s3.access_counter,
                     !.frames[frame_id].access_frequency = 1,
                     !.page_table = DictSet(@, page_id, frame_id),
                     !.ret = r[1]]

\* BufferManager._load_page_from_disk
load_page_from_disk(s, page_id, rok, wout) ==
  LET s1 == get_free_frame(s)
      s2 == IF s1.ret = None THEN evict_page(s1, wout) ELSE s1
      frame_id == s2.ret
      r == read_page(s2.disk, page_id, rok)
      s3 == [s2 EXCEPT !.disk = r[2], !.frame_id = frame_id,
                       !.io = Append(@, [op |-> "read", page_id |-> page_id,
                                         content |-> r[1],
                                         ok |-> r[1] # None])]
  IN IF frame_id = None
     THEN [s2 EXCEPT !.ret = None]
     ELSE IF r[1] = None
     THEN [s3 EXCEPT !.free_frames = AppendIfAbsent(@, frame_id),
                     !.ret = None]
     ELSE [s3 EXCEPT !.frames[frame_id].page = r[1],
                     !.frames[frame_id].page_id = page_id,
                     !.frames[frame_id].is_dirty = FALSE,
                     !.frames[frame_id].last_accessed = s3.access_counter,
                     !.frames[frame_id].access_frequency = 1,
                     !.page_table = DictSet(@, page_id, frame_id),
                     !.ret = r[1]]

\* get_page without the page-table lookup: every request loads
get_page_always_loads(s, page_id, rok, wout) ==
  load_page_from_disk([s EXCEPT !.access_counter = @ + 1, !.misses = @ + 1],
                      page_id, rok, wout)

\* get_page whose hit marks the frame dirty
get_page_hit_dirties(s, page_id, rok, wout) ==
  LET s1 == [s EXCEPT !.access_counter = @ + 1]
  IN IF page_id \in DOMAIN s1.page_table
     THEN LET frame_id == s1.page_table[page_id]
          IN [s1 EXCEPT !.frames[frame_id].last_accessed = s1.access_counter,
                        !.frames[frame_id].access_frequency = @ + 1,
                        !.frames[frame_id].clock_bit = TRUE,
                        !.frames[frame_id].is_dirty = TRUE,
                        !.hits = @ + 1,
                        !.frame_id = frame_id,
                        !.ret = s1.frames[frame_id].page]
     ELSE load_page_from_disk([s1 EXCEPT !.misses = @ + 1],
                              page_id, rok, wout)

\* get_page that advances the access counter on a miss only
get_page_hit_no_count(s, page_id, rok, wout) ==
  LET s1 == [s EXCEPT !.access_counter = @ + 1]
  IN IF page_id \in DOMAIN s.page_table
     THEN LET frame_id == s.page_table[page_id]
          IN [s EXCEPT !.frames[frame_id].last_accessed = s.access_counter,
                       !.frames[frame_id].access_frequency = @ + 1,
                       !.frames[frame_id].clock_bit = TRUE,
                       !.hits = @ + 1,
                       !.frame_id = frame_id,
                       !.ret = s.frames[frame_id].page]
     ELSE load_page_from_disk([s1 EXCEPT !.misses = @ + 1],
                              page_id, rok, wout)

\* BufferManager.get_page
get_page(s, page_id, rok, wout) ==
  LET s1 == [s EXCEPT !.access_counter = @ + 1]
  IN IF page_id \in DOMAIN s1.page_table
     THEN LET frame_id == s1.page_table[page_id]
          IN [s1 EXCEPT !.frames[frame_id].last_accessed = s1.access_counter,
                        !.frames[frame_id].access_frequency = @ + 1,
                        !.frames[frame_id].clock_bit = TRUE,
                        !.hits = @ + 1,
                        !.frame_id = frame_id,
                        !.ret = s1.frames[frame_id].page]
     ELSE load_page_from_disk([s1 EXCEPT !.misses = @ + 1],
                              page_id, rok, wout)

\* BufferManager.flush_all_dirty_pages: the loop over frames i..pool_size-1;
\* wouts[i] is the outcome of the write of frame i
RECURSIVE flush_from(_, _, _)
flush_from(s, i, wouts) ==
  IF i >= s.pool_size THEN s
  ELSE LET frame == s.frames[i]
           w == write_page(s.disk, frame.page_id, frame.page, wouts[i])
       IN IF frame.is_dirty /\ frame.page # None
          THEN flush_from([s EXCEPT !.disk = w[2],
                                    !.frames[i].is_dirty = FALSE,
                                    !.io = Append(@, [op |-> "write",
                                                      page_id |-> frame.page_id,
                                                      content |-> frame.page,
                                                      ok |-> w[1]])],
                          i + 1, wouts)
          ELSE flush_from(s, i + 1, wouts)

\* flush_all_dirty_pages whose loop starts at the second frame
flush_all_dirty_pages_skips_first(s, wouts) == flush_from(s, 1, wouts)

\* BufferManager.flush_all_dirty_pages
flush_all_dirty_pages(s, wouts) == flush_from(s, 0, wouts)

\* ------------------------------------------------- UserAwareBufferManager
\* PageType
PageTypes ==
  {"USER_PREFERENCES", "RECENT_CONVERSATION", "USER_FACTS",
   "OLD_CONVERSATION", "SESSION_STATE"}

\* LLMPage._get_priority
get_priority(page_type) ==
  CASE page_type = "USER_PREFERENCES" -> 100
    [] page_type = "RECENT_CONVERSATION" -> 80
    [] page_type = "USER_FACTS" -> 60
    [] page_type = "OLD_CONVERSATION" -> 40
    [] page_type = "SESSION_STATE" -> 20

\* UserAwareBufferManager.activity_timeout, in minutes
activity_timeout == 5

\* ExtendedBufferFrame.__init__ ("" is None for a user id and a page type)
ExtendedBufferFrame(i) ==
  [frame_id |-> i, page |-> None, page_id |-> None, is_dirty |-> FALSE,
   last_accessed |-> 0, access_frequency |-> 0, clock_bit |-> FALSE,
   user_id |-> "", page_type |-> "", priority |-> 0]

\* _update_active_status that compares with < instead of <=
update_active_status_strict(s, t) ==
  [s EXCEPT !.user_sessions =
     [u \in DOMAIN s.user_sessions |->
        [s.user_sessions[u] EXCEPT
           !.is_active =
              (t - s.user_sessions[u].last_activity < activity_timeout)]]]

\* UserAwareBufferManager._update_active_status at time t
update_active_status(s, t) ==
  [s EXCEPT !.user_sessions =
     [u \in DOMAIN s.user_sessions |->
        [s.user_sessions[u] EXCEPT
           !.is_active =
              (t - s.user_sessions[u].last_activity <= activity_timeout)]]]

\* UserAwareBufferManager.register_user_activity at time t
register_user_activity(s, user_id, t) ==
  LET s1 == IF user_id \notin DOMAIN s.user_sessions
            THEN [s EXCEPT !.user_sessions =
                             DictSet(@, user_id,
                                     [last_activity |-> t, is_active |-> TRUE,
                                      allocated_pages |-> 0]),
                           !.user_allocations = DictSet(@, user_id, 0)]
            ELSE [s EXCEPT !.user_sessions[user_id].last_activity = t,
                           !.user_sessions[user_id].is_active = TRUE]
  IN update_active_status(s1, t)

\* UserAwareBufferManager._evict_user_aware_lru: the selection of the victim
\* is left to be written, best_victim_frame stays None and nothing is evicted
evict_user_aware_lru(s, t) == [update_active_status(s, t) EXCEPT !.ret = None]

\* _load_llm_page that does not count the page in the session
load_llm_page_no_session_count(s, page_id, user_id, page_type, t) ==
  LET s1 == get_free_frame(s)
      s2 == IF s1.ret = None THEN evict_user_aware_lru(s1, t) ELSE s1
      frame_id == s2.ret
  IN IF frame_id = None
     THEN [s2 EXCEPT !.ret = None]
     ELSE [s2 EXCEPT !.frames[frame_id].page = 1,
                     !.frames[frame_id].page_id = page_id,
                     !.frames[frame_id].user_id = user_id,
                     !.frames[frame_id].page_type = page_type,
                     !.frames[frame_id].priority = get_priority(page_type),
                     !.frames[frame_id].last_accessed = t,
                     !.frames[frame_id].access_frequency = 1,
                     !.frames[frame_id].is_dirty = FALSE,
                     !.page_table = DictSet(@, page_id, frame_id),
                     !.user_allocations =
                        DictSet(@, user_id,
                                (IF user_id \in DOMAIN @ THEN @[user_id] ELSE 0) + 1),
                     !.frame_id = frame_id,
                     !.ret = 1]

\* UserAwareBufferManager._load_llm_page (with ExtendedBufferFrame.load_llm_page)
load_llm_page(s, page_id, user_id, page_type, t) ==
  LET s1 == get_free_frame(s)
      s2 == IF s1.ret = None THEN evict_user_aware_lru(s1, t) ELSE s1
      frame_id == s2.ret
  IN IF frame_id = None
     THEN [s2 EXCEPT !.ret = None]
     ELSE [s2 EXCEPT !.frames[frame_id].page = 1,
                     !.frames[frame_id].page_id = page_id,
                     !.frames[frame_id].user_id = user_id,
                     !.frames[frame_id].page_type = page_type,
                     !.frames[frame_id].priority = get_priority(page_type),
                     !.frames[frame_id].last_accessed = t,
                     !.frames[frame_id].access_frequency = 1,
                     !.frames[frame_id].is_dirty = FALSE,
                     !.page_table = DictSet(@, page_id, frame_id),
                     !.user_allocations =
                        DictSet(@, user_id,
                                (IF user_id \in DOMAIN @ THEN @[user_id] ELSE 0) + 1),
                     !.user_sessions =
                        IF user_id \in DOMAIN @
                        THEN [@ EXCEPT ![user_id].allocated_pages = @ + 1]
                        ELSE @,
                     !.frame_id = frame_id,
                     !.ret = 1]

\* get_llm_page without the page-table lookup: every request loads
get_llm_page_always_loads(s, page_id, user_id, page_type, t) ==
  LET s1 == register_user_activity(s, user_id, t)
  IN load_llm_page([s1 EXCEPT !.misses = @ + 1],
                   page_id, user_id, page_type, t)

\* UserAwareBufferManager.get_llm_page at time t
get_llm_page(s, page_id, user_id, page_type, t) ==
  LET s1 == register_user_activity(s, user_id, t)
  IN IF page_id \in DOMAIN s1.page_table
     THEN LET frame_id == s1.page_table[page_id]
          IN [s1 EXCEPT !.frames[frame_id].last_accessed = t,
                        !.frames[frame_id].access_frequency = @ + 1,
                        !.hits = @ + 1,
                        !.frame_id = frame_id,
                        !.ret = s1.frames[frame_id].page]
     ELSE load_llm_page([s1 EXCEPT !.misses = @ + 1],
                        page_id, user_id, page_type, t)

\* ---------------------------------------------------------------- actions
\* what a call leaves in `last`
Call(op, page_id, t) ==
  [op |-> op, page_id |-> page_id, ret |-> t.ret, frame_id |-> t.frame_id,
   victim_frame |-> t.victim_frame, victim_page |-> t.victim_page,
   io |-> t.io, hit |-> t.hits > hits, inspected |-> t.inspected]

\* what a call get_llm_page(page_id, user_id, page_type) leaves in `last`
LLMCall(page_id, user_id, page_type, t) ==
  [op |-> "get_llm_page", page_id |-> page_id, user_id |-> user_id,
   page_type |-> page_type, ret |-> t.ret, frame_id |-> t.frame_id,
   victim_frame |-> t.victim_frame, victim_page |-> t.victim_page,
   io |-> t.io, hit |-> t.hits > hits, inspected |-> t.inspected]

\* `last` when the last step was no call of the buffer manager
NoCall(op) ==
  [op |-> op, page_id |-> None, ret |-> None, frame_id |-> None,
   victim_frame |-> None, victim_page |-> None, io |-> <<>>, hit |-> FALSE,
   inspected |-> 0]

\* the object's fields after a call
Store(t) ==
  /\ frames' = t.frames
  /\ page_table' = t.page_table
  /\ free_frames' = t.free_frames
  /\ access_counter' = t.access_counter
  /\ clock_hand' = t.clock_hand
  /\ hits' = t.hits
  /\ misses' = t.misses
  /\ evictions' = t.evictions
  /\ disk' = t.disk
  /\ user_sessions' = t.user_sessions
  /\ user_allocations' = t.user_allocations
  /\ active_user_evictions' = t.active_user_evictions
  /\ UNCHANGED <<pool_size, policy>>

\* BufferManager.__init__ but for the frames, over a DiskManager whose file
\* holds MaxPageId pages (page MaxPageId is beyond the end of the file)
InitManager ==
  /\ pool_size \in PoolSizes
  /\ page_table = <<>>
  /\ free_frames = [i \in 1..pool_size |-> i - 1]
  /\ access_counter = 0
  /\ clock_hand = 0
  /\ hits = 0
  /\ misses = 0
  /\ evictions = 0
  /\ disk = DiskManager(MaxPageId)
  /\ last = NoCall("init")
  /\ requested = {}
  /\ user_sessions = <<>>
  /\ user_allocations = <<>>
  /\ active_user_evictions = 0
  /\ now = 0

\* BufferManager(disk_manager, pool_size, policy)
Init ==
  /\ policy \in BasePolicies
  /\ InitManager
  /\ frames = [i \in 0..(pool_size - 1) |-> BufferFrame(i)]

\* a call get_page(page_id), but for its record in `requested`
GetPageCall(page_id, rok, wout) ==
  /\ policy \in BasePolicies
  /\ access_counter < MaxCalls
  /\ LET t == get_page(Self, page_id, rok, wout)
     IN /\ Store(t)
        /\ last' = Call("get_page", page_id, t)
  /\ UNCHANGED now

\* a call get_page(page_id)
GetPage(page_id, rok, wout) ==
  /\ GetPageCall(page_id, rok, wout)
  /\ UNCHANGED requested

\* a content that is in no frame and nowhere in the file
NewContent ==
  LET used == {frames[i].page : i \in DOMAIN frames}
                \cup {disk.file[i] : i \in DOMAIN disk.file} \cup {1}
  IN 1 + CHOOSE m \in used : \A x \in used : x <= m

\* the caller changes the records of the page cached in frame f and marks
\* the frame dirty
MarkDirty(f) ==
  /\ policy \in BasePolicies
  /\ frames[f].page # None
  /\ NewContent <= MaxContent
  /\ frames' = [frames EXCEPT ![f].page = NewContent, ![f].is_dirty = TRUE]
  /\ last' = NoCall("mark_dirty")
  /\ UNCHANGED <<pool_size, policy, page_table, free_frames, access_counter,
                 clock_hand, hits, misses, evictions, disk, requested,
                 userVars>>

\* a call flush_all_dirty_pages()
FlushAllDirtyPages(wouts) ==
  /\ policy \in BasePolicies
  /\ LET t == flush_all_dirty_pages(Self, wouts)
     IN /\ Store(t)
        /\ last' = Call("flush_all_dirty_pages", None, t)
  /\ UNCHANGED <<requested, now>>

\* the outcomes of the disk calls a step can make: a hit reads nothing, and
\* only a dirty frame is written
ReadOutcomes(page_id) ==
  IF page_id \in DOMAIN page_table THEN {TRUE} ELSE BOOLEAN

EvictionOutcomes ==
  IF free_frames = <<>> /\ \E i \in DOMAIN frames : frames[i].is_dirty
  THEN WriteOutcomes ELSE {"ok"}

FlushOutcomes ==
  {w \in [DOMAIN frames -> WriteOutcomes] :
     \A i \in DOMAIN frames : ~frames[i].is_dirty => w[i] = "ok"}

Next ==
  \/ \E p \in PageIds :
       \E rok \in ReadOutcomes(p), wout \in EvictionOutcomes :
         GetPage(p, rok, wout)
  \/ \E f \in DOMAIN frames : MarkDirty(f)
  \/ \E wouts \in FlushOutcomes : FlushAllDirtyPages(wouts)

Spec == Init /\ [][Next]_vars

\* a call get_page(page_id) against a disk on which no read raises, recorded
\* in `requested`
GetPageNoFault(page_id) ==
  /\ GetPageCall(page_id, TRUE, "ok")
  /\ requested' = requested \cup {page_id}

\* the calls against a disk on which no read and no write raises
NextNoFault ==
  \/ \E p \in PageIds : GetPageNoFault(p)
  \/ \E f \in DOMAIN frames : MarkDirty(f)
  \/ FlushAllDirtyPages([i \in DOMAIN frames |-> "ok"])

SpecNoFault == Init /\ [][NextNoFault]_vars

\* UserAwareBufferManager(disk_manager, pool_size)
InitUserAware ==
  /\ policy = "USER_AWARE"
  /\ InitManager
  /\ frames = [i \in 0..(pool_size - 1) |-> ExtendedBufferFrame(i)]

\* a call get_llm_page(page_id, user_id, page_type)
GetLLMPage(page_id, user_id, page_type) ==
  /\ policy = "USER_AWARE"
  /\ hits + misses < MaxCalls
  /\ LET t == get_llm_page(Self, page_id, user_id, page_type, now)
     IN /\ Store(t)
        /\ last' = LLMCall(page_id, user_id, page_type, t)
  /\ UNCHANGED <<requested, now>>

\* a call register_user_activity(user_id)
RegisterUserActivity(user_id) ==
  /\ policy = "USER_AWARE"
  /\ LET t == register_user_activity(Self, user_id, now)
     IN /\ Store(t)
        /\ last' = NoCall("register_user_activity")
  /\ UNCHANGED <<requested, now>>

\* d minutes pass (the clock starts with the first session)
Tick(d) ==
  /\ policy = "USER_AWARE"
  /\ DOMAIN user_sessions # {}
  /\ now + d <= MaxTime
  /\ now' = now + d
  /\ last' = NoCall("tick")
  /\ UNCHANGED <<baseVars, requested, user_sessions, user_allocations,
                 active_user_evictions>>

\* the page types requested: the highest and the lowest priority
RequestedTypes == {"USER_PREFERENCES", "SESSION_STATE"}

\* the clock is read when exactly the activity timeout has passed, and a
\* minute later
TickSteps == {activity_timeout, activity_timeout + 1}

\* get_llm_page reads no file, so that every page id exists: one page more
\* than the largest pool holds is requested
LLMPageIds == 0..MaxPoolSize

NextUserAware ==
  \/ \E p \in LLMPageIds, u \in UserIds, ty \in RequestedTypes :
       GetLLMPage(p, u, ty)
  \/ \E u \in UserIds : RegisterUserActivity(u)
  \/ \E d \in TickSteps : Tick(d)

SpecUserAware == InitUserAware /\ [][NextUserAware]_vars

\* both buffer managers
InitAll == Init \/ InitUserAware

NextAll == Next \/ NextUserAware

SpecAll == InitAll /\ [][NextAll]_vars

\* BufferManager(disk_manager, pool_size, policy="CLOCK") with the pools that
\* a scan of several frames needs
MaxClockPool == 3

MaxClockCalls == 5

InitClock ==
  /\ policy = "CLOCK"
  /\ pool_size \in 1..MaxClockPool
  /\ frames = [i \in 0..(pool_size - 1) |-> BufferFrame(i)]
  /\ page_table = <<>>
  /\ free_frames = [i \in 1..pool_size |-> i - 1]
  /\ access_counter = 0
  /\ clock_hand = 0
  /\ hits = 0
  /\ misses = 0
  /\ evictions = 0
  /\ disk = DiskManager(MaxPageId)
  /\ last = NoCall("init")
  /\ requested = {}
  /\ user_sessions = <<>>
  /\ user_allocations = <<>>
  /\ active_user_evictions = 0
  /\ now = 0

\* a call get_page(page_id) of the CLOCK pool; no read and no write raises
GetPageClock(page_id) ==
  /\ policy = "CLOCK"
  /\ access_counter < MaxClockCalls
  /\ LET t == get_page(Self, page_id, TRUE, "ok")
     IN /\ Store(t)
        /\ last' = Call("get_page", page_id, t)
  /\ UNCHANGED <<requested, now>>

NextClock == \E p \in PageIds : GetPageClock(p)

SpecClock == InitClock /\ [][NextClock]_vars

\* the same pools and calls under each policy of the base manager
InitSearch ==
  /\ policy \in BasePolicies
  /\ pool_size \in 1..MaxClockPool
  /\ frames = [i \in 0..(pool_size - 1) |-> BufferFrame(i)]
  /\ page_table = <<>>
  /\ free_frames = [i \in 1..pool_size |-> i - 1]
  /\ access_counter = 0
  /\ clock_hand = 0
  /\ hits = 0
  /\ misses = 0
  /\ evictions = 0
  /\ disk = DiskManager(MaxPageId)
  /\ last = NoCall("init")
  /\ requested = {}
  /\ user_sessions = <<>>
  /\ user_allocations = <<>>
  /\ active_user_evictions = 0
  /\ now = 0

GetPageSearch(page_id) ==
  /\ policy \in BasePolicies
  /\ access_counter < MaxClockCalls
  /\ LET t == get_page(Self, page_id, TRUE, "ok")
     IN /\ Store(t)
        /\ last' = Call("get_page", page_id, t)
  /\ UNCHANGED <<requested, now>>

NextSearch == \E p \in PageIds : GetPageSearch(p)

SpecSearch == InitSearch /\ [][NextSearch]_vars

\* UserAwareBufferManager._write_back_and_clear_frame (with
\* ExtendedBufferFrame.clear_frame): for a dirty frame it prints only, no
\* write_page is called
write_back_and_clear_frame_llm(s, frame_id) ==
  LET frame == s.frames[frame_id]
      s2 == IF frame.page_id # None /\ frame.page_id \in DOMAIN s.page_table
            THEN [s EXCEPT !.page_table = DictDel(@, frame.page_id)]
            ELSE s
  IN [s2 EXCEPT !.frames[frame_id].page = None,
                !.frames[frame_id].page_id = None,
                !.frames[frame_id].user_id = "",
                !.frames[frame_id].page_type = "",
                !.frames[frame_id].priority = 0,
                !.frames[frame_id].is_dirty = FALSE,
                !.frames[frame_id].access_frequency = 0,
                !.evictions = @ + 1,
                !.victim_frame = frame_id,
                !.victim_page = frame.page_id]

\* every frame is in the free list or holds a page: no eviction is under way
NoFrameInHand ==
  \A i \in DOMAIN frames :
    frames[i].page # None \/ \E k \in DOMAIN free_frames : free_frames[k] = i

\* a call get_llm_page(page_id, user_id, page_type) between evictions
GetLLMPageIdle(page_id, user_id, page_type) ==
  /\ NoFrameInHand
  /\ GetLLMPage(page_id, user_id, page_type)

\* the caller changes the page cached in frame f of the tenant-aware pool
\* and marks the frame dirty
MarkDirtyLLM(f) ==
  /\ policy = "USER_AWARE"
  /\ NoFrameInHand
  /\ frames[f].page = 1
  /\ frames' = [frames EXCEPT ![f].page = 2, ![f].is_dirty = TRUE]
  /\ last' = NoCall("mark_dirty")
  /\ UNCHANGED <<pool_size, policy, page_table, free_frames, access_counter,
                 clock_hand, hits, misses, evictions, disk, requested,
                 userVars>>

\* the call self._write_back_and_clear_frame(best_victim_frame.frame_id) of
\* _evict_user_aware_lru, for the occupied frame f of a full pool
WriteBackAndClearFrameLLM(f) ==
  /\ policy = "USER_AWARE"
  /\ free_frames = <<>>
  /\ NoFrameInHand
  /\ LET t == write_back_and_clear_frame_llm(Self, f)
     IN /\ Store(t)
        /\ last' = Call("_write_back_and_clear_frame", None, t)
  /\ UNCHANGED <<requested, now>>

NextUserAwareEvict ==
  \/ \E p \in LLMPageIds, u \in UserIds, ty \in RequestedTypes :
       GetLLMPageIdle(p, u, ty)
  \/ \E f \in DOMAIN frames : MarkDirtyLLM(f)
  \/ \E f \in DOMAIN frames : WriteBackAndClearFrameLLM(f)

SpecUserAwareEvict == InitUserAware /\ [][NextUserAwareEvict]_vars

\* ------------------------------------------------------ Order and DiskPage
\* Order.RECORD_SIZE and DiskPage.RECORDS_PER_PAGE
RECORD_SIZE == 32

RECORDS_PER_PAGE == PAGE_SIZE \div RECORD_SIZE

\* a raised ValueError, as the result of a call
ValueError == [error |-> "ValueError"]

\* Order.__init__
Order(order_id, customer_id, product_id, quantity, price, order_date, region) ==
  [order_id |-> order_id, customer_id |-> customer_id,
   product_id |-> product_id, quantity |-> quantity, price |-> price,
   order_date |-> order_date, region |-> region]

\* struct.pack('I', v) and struct.unpack('I', b) for 0 <= v < 2^32: four
\* bytes, the least significant first
pack_I(v) ==
  <<v % 256, (v \div 256) % 256, (v \div 65536) % 256,
    (v \div 16777216) % 256>>

unpack_I(b) == b[1] + 256 * b[2] + 65536 * b[3] + 16777216 * b[4]

\* 2^n, and 2^n modulo 100
RECURSIVE Pow2(_)
Pow2(n) == IF n = 0 THEN 1 ELSE 2 * Pow2(n - 1)

RECURSIVE Pow2Mod100(_)
Pow2Mod100(n) == IF n = 0 THEN 1 ELSE (2 * Pow2Mod100(n - 1)) % 100

\* the binary exponent of x >= 1: the largest j with 2^j <= x
RECURSIVE FloorLog2(_)
FloorLog2(x) == IF x < 2 THEN 0 ELSE 1 + FloorLog2(x \div 2)

\* the binary exponent of c/100 for c >= 1: the largest a with 2^a <= c/100
RECURSIVE FloorLog2Hundredths(_)
FloorLog2Hundredths(c) ==
  IF c >= 100 THEN FloorLog2(c \div 100)
  ELSE FloorLog2Hundredths(2 * c) - 1

\* int(self.price * 100) of Order.to_bytes, for the price of c cents. A price
\* is a Python float, here the double nearest to c/100: with a the exponent
\* of c/100 and k = 52 - a, the double is m / 2^k for the integer m nearest
\* to c * 2^k / 100. The exact product with 100 is c + r / 2^k, where
\* r = 100 * m - c * 2^k lies in -49..49. The doubles next to c are 2^(j-a)
\* units of 1 / 2^k apart (j the exponent of c; half as much below a power of
\* two), so the product is rounded to a double below c when -r exceeds half
\* that distance, and int() then truncates it to c - 1.
int_price_times_100(c) ==
  IF c = 0 THEN 0
  ELSE LET a == FloorLog2Hundredths(c)
           j == FloorLog2(c)
           rem == ((c % 100) * Pow2Mod100(52 - a)) % 100
           r == IF rem < 50 THEN 0 - rem ELSE 100 - rem
           below == IF c = Pow2(j) THEN Pow2(j - a) \div 2 ELSE Pow2(j - a)
       IN IF r < 0 /\ 2 * (0 - r) > below THEN c - 1 ELSE c

\* Order.to_bytes: the eight fields of struct.pack('IIIIIIII', ...); the
\* price of an Order is held in cents, for the float nearest to cents/100
Order_to_bytes(o) ==
  pack_I(o.order_id) \o pack_I(o.customer_id) \o pack_I(o.product_id)
    \o pack_I(o.quantity) \o pack_I(int_price_times_100(o.price))
    \o pack_I(o.order_date) \o pack_I(o.region) \o pack_I(0)

\* Order.from_bytes; fields[4] / 100.0 is the float nearest to fields[4]/100
Order_from_bytes(data) ==
  IF Len(data) < RECORD_SIZE THEN ValueError
  ELSE LET field(i) == unpack_I(SubSeq(data, 4 * i + 1, 4 * i + 4))
       IN [order_id |-> field(0), customer_id |-> field(1),
           product_id |-> field(2), quantity |-> field(3),
           price |-> field(4), order_date |-> field(5), region |-> field(6)]

\* the larger of two numbers
Max(a, b) == IF a >= b THEN a ELSE b

\* DiskPage.to_bytes: PAGE_SIZE zero bytes, into which the records are
\* assigned slice by slice (an assignment past the end extends a bytearray)
DiskPage_to_bytes(page) ==
  LET n == Len(page.orders)
      enc == [k \in 1..n |-> Order_to_bytes(page.orders[k])]
  IN [i \in 1..Max(PAGE_SIZE, n * RECORD_SIZE) |->
        IF (i - 1) \div RECORD_SIZE < n
        THEN enc[((i - 1) \div RECORD_SIZE) + 1][((i - 1) % RECORD_SIZE) + 1]
        ELSE 0]

\* DiskPage.from_bytes that accepts any input of at least PAGE_SIZE bytes
DiskPage_from_bytes_at_least(page_id, data) ==
  IF Len(data) < PAGE_SIZE THEN ValueError
  ELSE LET slots == [i \in 1..RECORDS_PER_PAGE |->
                       SubSeq(data, (i - 1) * RECORD_SIZE + 1,
                              i * RECORD_SIZE)]
           valid == SelectSeq(slots,
                              LAMBDA rec : unpack_I(SubSeq(rec, 1, 4)) # 0)
       IN [page_id |-> page_id,
           orders |-> [k \in 1..Len(valid) |-> Order_from_bytes(valid[k])]]

\* DiskPage.from_bytes
DiskPage_from_bytes(page_id, data) ==
  IF Len(data) # PAGE_SIZE THEN ValueError
  ELSE LET slots == [i \in 1..RECORDS_PER_PAGE |->
                       SubSeq(data, (i - 1) * RECORD_SIZE + 1,
                              i * RECORD_SIZE)]
           valid == SelectSeq(slots,
                              LAMBDA rec : unpack_I(SubSeq(rec, 1, 4)) # 0)
       IN [page_id |-> page_id,
           orders |-> [k \in 1..Len(valid) |-> Order_from_bytes(valid[k])]]

\* the calls of the record and page codec, each on one input
MaxCents == 30

MaxRecords == 2

\* field values of one, two and four significant bytes
FieldValues == {1, 258, 16909060}

OrderInputs ==
  {Order(i, v, 50, 2, c, 365, 1) :
     i \in FieldValues \cup {0}, v \in FieldValues, c \in 0..MaxCents}

\* records of a page: a record id of 0, prices of 1.00 and of 0.29
PageRecords == {Order(i, 100, 50, 2, c, 365, 1) : i \in 0..2, c \in {100, 29}}

\* pages of up to MaxRecords records, and pages filled by add_order up to
\* RECORDS_PER_PAGE records, the second with a record id of 0
PageInputs ==
  {[page_id |-> 0, orders |-> q] :
     q \in UNION {[1..n -> PageRecords] : n \in 0..MaxRecords}}
  \cup {[page_id |-> 0,
         orders |-> [k \in 1..RECORDS_PER_PAGE |->
                       Order(k, 100, 50, 2, 100, 365, 1)]],
        [page_id |-> 0,
         orders |-> [k \in 1..RECORDS_PER_PAGE |->
                       Order(IF k = 2 THEN 0 ELSE k, 100, 50, 2, 100, 365, 1)]]}

\* byte strings of a length around RECORD_SIZE and PAGE_SIZE, of one byte
\* value each
ByteInputs ==
  {[len |-> n, fill |-> b] :
     n \in {0, RECORD_SIZE - 1, PAGE_SIZE - 1, PAGE_SIZE, PAGE_SIZE + 1,
            2 * PAGE_SIZE},
     b \in {0, 1, 127}}

\* no buffer manager is constructed
NoBufferManager ==
  /\ policy = "NONE"
  /\ pool_size = 0
  /\ frames = <<>>
  /\ page_table = <<>>
  /\ free_frames = <<>>
  /\ access_counter = 0
  /\ clock_hand = 0
  /\ hits = 0
  /\ misses = 0
  /\ evictions = 0
  /\ requested = {}
  /\ user_sessions = <<>>
  /\ user_allocations = <<>>
  /\ active_user_evictions = 0
  /\ now = 0

\* the codec has no state
InitCodec ==
  /\ NoBufferManager
  /\ disk = DiskManager(0)
  /\ last \in {[op |-> "Order", arg |-> o, done |-> FALSE, ret |-> None] :
                 o \in OrderInputs}
        \cup {[op |-> "DiskPage", arg |-> pg, done |-> FALSE, ret |-> None] :
                 pg \in PageInputs}
        \cup {[op |-> "bytes", arg |-> b, done |-> FALSE, ret |-> None] :
                 b \in ByteInputs}

\* Order.from_bytes(order.to_bytes())
OrderRoundTrip ==
  /\ last.op = "Order" /\ ~last.done
  /\ last' = [last EXCEPT !.done = TRUE,
                          !.ret = Order_from_bytes(Order_to_bytes(last.arg))]
  /\ UNCHANGED <<baseVars, requested, userVars>>

\* DiskPage.from_bytes(page.page_id, page.to_bytes())
PageRoundTrip ==
  /\ last.op = "DiskPage" /\ ~last.done
  /\ last' = [last EXCEPT
                !.done = TRUE,
                !.ret = DiskPage_from_bytes(last.arg.page_id,
                                            DiskPage_to_bytes(last.arg))]
  /\ UNCHANGED <<baseVars, requested, userVars>>

\* DiskPage.from_bytes(0, data)
PageFromBytes ==
  /\ last.op = "bytes" /\ ~last.done
  /\ last' = [last EXCEPT
                !.done = TRUE,
                !.ret = DiskPage_from_bytes(
                          0, [i \in 1..last.arg.len |-> last.arg.fill])]
  /\ UNCHANGED <<baseVars, requested, userVars>>

NextCodec == OrderRoundTrip \/ PageRoundTrip \/ PageFromBytes

SpecCodec == InitCodec /\ [][NextCodec]_vars

\* ------------------------------------------- DiskManager, byte by byte
\* The DiskManager with its file as the sequence of the file's bytes.

\* None, as the result of DiskManager.read_page
NoPage == [none |-> TRUE]

\* the bytes f.read(PAGE_SIZE) returns after f.seek(page_id * PAGE_SIZE)
ReadAt(file, page_id) ==
  SubSeq(file, page_id * PAGE_SIZE + 1,
         IF Len(file) < (page_id + 1) * PAGE_SIZE THEN Len(file)
         ELSE (page_id + 1) * PAGE_SIZE)

\* DiskManager.read_page that decodes what a short read returned
DiskManager_read_page_partial(d, page_id, ok) ==
  LET data == ReadAt(d.file, page_id)
  IN IF ok /\ Len(data) > 0
     THEN <<DiskPage_from_bytes(
              page_id, [i \in 1..PAGE_SIZE |->
                          IF i <= Len(data) THEN data[i] ELSE 0]),
            [d EXCEPT !.read_count = @ + 1, !.bytes_read = @ + PAGE_SIZE]>>
     ELSE <<NoPage, d>>

\* DiskManager.read_page that counts every call
DiskManager_read_page_counts_calls(d, page_id, ok) ==
  LET data == ReadAt(d.file, page_id)
      counted == [d EXCEPT !.read_count = @ + 1,
                           !.bytes_read = @ + PAGE_SIZE]
  IN IF ok /\ Len(data) = PAGE_SIZE
     THEN <<DiskPage_from_bytes(page_id, data), counted>>
     ELSE <<NoPage, counted>>

\* DiskManager.read_page: <<the page or None, the DiskManager after>>.
\* ok = FALSE is a FileNotFoundError/IOError/OSError of open, seek or read.
DiskManager_read_page(d, page_id, ok) ==
  LET data == ReadAt(d.file, page_id)
  IN IF ok /\ Len(data) = PAGE_SIZE
     THEN <<DiskPage_from_bytes(page_id, data),
            [d EXCEPT !.read_count = @ + 1, !.bytes_read = @ + PAGE_SIZE]>>
     ELSE <<NoPage, d>>

\* the file after the extension with zero bytes to required_size
Extended(file, required_size) ==
  IF Len(file) < required_size
  THEN file \o [i \in 1..(required_size - Len(file)) |-> 0]
  ELSE file

\* f.write(data) that writes at the end of the file, whatever the offset
WriteAt_end(file, offset, data) == file \o data

\* the file after f.seek(offset); f.write(data), for offset <= Len(file)
WriteAt(file, offset, data) ==
  SubSeq(file, 1, offset) \o data
    \o SubSeq(file, offset + Len(data) + 1, Len(file))

\* DiskManager.write_page: <<True/False, the DiskManager after>>.
\* outcome "fail" is an IOError/OSError before the file is changed,
\* "fail_after_extend" one raised by the second open, the seek or the write.
DiskManager_write_page(d, page, outcome) ==
  LET required_size == (page.page_id + 1) * PAGE_SIZE
      extended == Extended(d.file, required_size)
  IN CASE outcome = "ok" ->
            <<TRUE, [d EXCEPT !.file = WriteAt(extended,
                                               page.page_id * PAGE_SIZE,
                                               DiskPage_to_bytes(page)),
                              !.write_count = @ + 1,
                              !.bytes_written = @ + PAGE_SIZE]>>
       [] outcome = "fail_after_extend" ->
            <<FALSE, [d EXCEPT !.file = extended]>>
       [] OTHER -> <<FALSE, d>>

\* DiskManager.reset_stats
reset_stats(d) ==
  [d EXCEPT !.read_count = 0, !.write_count = 0,
            !.bytes_read = 0, !.bytes_written = 0]

\* DiskManager.get_stats: <<the counters returned, the DiskManager after>>
DiskManager_get_stats(d) ==
  <<[read_count |-> d.read_count, write_count |-> d.write_count,
     bytes_read |-> d.bytes_read, bytes_written |-> d.bytes_written], d>>

MaxDiskCalls == 2

DiskPageIds == 0..1

\* the pages written: empty, one record, one record of price 0.29, and a
\* record of id 0 before a record
DiskPages ==
  {[page_id |-> i, orders |-> q] :
     i \in DiskPageIds,
     q \in {<<>>,
            <<Order(1, 100, 50, 2, 100, 365, 1)>>,
            <<Order(2, 100, 50, 2, 29, 365, 1)>>,
            <<Order(0, 100, 50, 2, 100, 365, 1),
              Order(3, 100, 50, 2, 100, 365, 1)>>}}

\* the file found by _ensure_file_exists: new and empty, or left by an
\* earlier run and cut short within page 0 or within page 1
InitialFiles ==
  {[i \in 1..n |-> 1] : n \in {0, PAGE_SIZE \div 2, PAGE_SIZE + PAGE_SIZE \div 2}}

InitDisk ==
  /\ NoBufferManager
  /\ \E file \in InitialFiles :
       disk = [DiskManager(0) EXCEPT !.file = file]
  /\ last = [op |-> "init", n |-> 0]

DiskReadPage ==
  /\ last.n < MaxDiskCalls
  /\ \E page_id \in DiskPageIds, ok \in BOOLEAN :
       LET r == DiskManager_read_page(disk, page_id, ok)
       IN /\ disk' = r[2]
          /\ last' = [op |-> "read_page", page_id |-> page_id, ok |-> ok,
                      ret |-> r[1], n |-> last.n + 1]
  /\ UNCHANGED <<pool_size, policy, frames, page_table, free_frames,
                 access_counter, clock_hand, hits, misses, evictions,
                 requested, userVars>>

DiskWritePage ==
  /\ last.n < MaxDiskCalls
  /\ \E page \in DiskPages, outcome \in {"ok", "fail", "fail_after_extend"} :
       LET r == DiskManager_write_page(disk, page, outcome)
       IN /\ disk' = r[2]
          /\ last' = [op |-> "write_page", page |-> page,
                      outcome |-> outcome, ret |-> r[1], n |-> last.n + 1]
  /\ UNCHANGED <<pool_size, policy, frames, page_table, free_frames,
                 access_counter, clock_hand, hits, misses, evictions,
                 requested, userVars>>

DiskResetStats ==
  /\ last.n < MaxDiskCalls
  /\ disk' = reset_stats(disk)
  /\ last' = [op |-> "reset_stats", n |-> last.n + 1]
  /\ UNCHANGED <<pool_size, policy, frames, page_table, free_frames,
                 access_counter, clock_hand, hits, misses, evictions,
                 requested, userVars>>

DiskGetStats ==
  /\ last.n < MaxDiskCalls
  /\ LET r == DiskManager_get_stats(disk)
     IN /\ disk' = r[2]
        /\ last' = [op |-> "get_stats", ret |-> r[1], n |-> last.n + 1]
  /\ UNCHANGED <<pool_size, policy, frames, page_table, free_frames,
                 access_counter, clock_hand, hits, misses, evictions,
                 requested, userVars>>

NextDisk == DiskReadPage \/ DiskWritePage \/ DiskResetStats \/ DiskGetStats

SpecDisk == InitDisk /\ [][NextDisk]_vars

\* write_page calls on a new, empty file; `requested` records the ids of the
\* pages written with success and last.failed that a call has failed
InitDiskWrites ==
  /\ NoBufferManager
  /\ disk = DiskManager(0)
  /\ last = [op |-> "init", n |-> 0, failed |-> FALSE]

DiskWritePageRecorded ==
  /\ last.n < MaxDiskCalls
  /\ \E page \in DiskPages, outcome \in {"ok", "fail", "fail_after_extend"} :
       LET r == DiskManager_write_page(disk, page, outcome)
       IN /\ disk' = r[2]
          /\ requested' = IF r[1] THEN requested \cup {page.page_id}
                          ELSE requested
          /\ last' = [op |-> "write_page", page |-> page,
                      outcome |-> outcome, ret |-> r[1], n |-> last.n + 1,
                      failed |-> last.failed \/ ~r[1]]
  /\ UNCHANGED <<pool_size, policy, frames, page_table, free_frames,
                 access_counter, clock_hand, hits, misses, evictions,
                 userVars>>

NextDiskWrites == DiskWritePageRecorded

SpecDiskWrites == InitDiskWrites /\ [][NextDiskWrites]_vars

\* a base manager over a new, empty file to which pages are also written
\* with the DiskManager itself, in any order; `requested` records the ids of
\* the pages so written
InitSparse ==
  /\ policy \in BasePolicies
  /\ pool_size \in PoolSizes
  /\ frames = [i \in 0..(pool_size - 1) |-> BufferFrame(i)]
  /\ page_table = <<>>
  /\ free_frames = [i \in 1..pool_size |-> i - 1]
  /\ access_counter = 0
  /\ clock_hand = 0
  /\ hits = 0
  /\ misses = 0
  /\ evictions = 0
  /\ disk = DiskManager(0)
  /\ last = NoCall("init")
  /\ requested = {}
  /\ user_sessions = <<>>
  /\ user_allocations = <<>>
  /\ active_user_evictions = 0
  /\ now = 0

\* a call disk.write_page(page) for a page of records with id page_id
DiskWriteSparse(page_id) ==
  /\ policy \in BasePolicies
  /\ disk.write_count < MaxDiskCalls
  /\ disk' = write_page(disk, page_id, 1, "ok")[2]
  /\ requested' = requested \cup {page_id}
  /\ last' = [NoCall("write_page") EXCEPT !.page_id = page_id]
  /\ UNCHANGED <<pool_size, policy, frames, page_table, free_frames,
                 access_counter, clock_hand, hits, misses, evictions,
                 userVars>>

GetPageSparse(page_id) ==
  /\ GetPageCall(page_id, TRUE, "ok")
  /\ UNCHANGED requested

NextSparse ==
  \/ \E p \in PageIds : DiskWriteSparse(p)
  \/ \E p \in PageIds : GetPageSparse(p)

SpecSparse == InitSparse /\ [][NextSparse]_vars

\* BufferManager.get_stats
get_stats ==
  [hits |-> hits, misses |-> misses, evictions |-> evictions,
   total_accesses |-> hits + misses,
   frames_used |-> Cardinality(DOMAIN page_table),
   frames_free |-> Len(free_frames), policy |-> policy]

\* ----------------------------------------------------------------- claims
\* the frames that hold a page, and the frames in the free list
Occupied == {i \in DOMAIN frames : frames[i].page # None}

FreeSet == {free_frames[i] : i \in DOMAIN free_frames}

\* the last call was get_page, and it was a miss
LastMiss == last.op = "get_page" /\ ~last.hit

\* the last call was get_page, it read the requested page, and the read failed
LastReadFailed ==
  /\ last.op = "get_page"
  /\ last.io # <<>>
  /\ last.io[Len(last.io)].op = "read"
  /\ ~last.io[Len(last.io)].ok

\* this step is a call of get_page
GetPageStep == access_counter' = access_counter + 1

\* C1: after any sequence of get_page calls the page table is injective, and
\* page_table[p] = f exactly when frame f holds a page and that page is p; the
\* table never points at a free frame.
C1_PageTableExact ==
  /\ \A p, q \in DOMAIN page_table : page_table[p] = page_table[q] => p = q
  /\ \A p \in DOMAIN page_table :
       /\ page_table[p] \in Occupied
       /\ frames[page_table[p]].page_id = p
       /\ page_table[p] \notin FreeSet
  /\ \A f \in Occupied :
       /\ frames[f].page_id \in DOMAIN page_table
       /\ page_table[frames[f].page_id] = f

\* a failed request has evicted a page and other pages stay cached
C1_Witness ==
  /\ last.op = "get_page"
  /\ last.victim_frame # None
  /\ last.ret = None
  /\ DOMAIN page_table # {}

\* C2: the free list has no duplicate, it and the occupied frames are
\* disjoint and together are the pool_size frames, and get_stats reports
\* frames_used + frames_free = pool_size.
C2_FreeListPartition ==
  /\ \A i, j \in DOMAIN free_frames : free_frames[i] = free_frames[j] => i = j
  /\ FreeSet \cap Occupied = {}
  /\ FreeSet \cup Occupied = 0..(pool_size - 1)
  /\ get_stats.frames_used + get_stats.frames_free = pool_size

\* a read failed, its frame is back in the free list, another frame is occupied
C2_Witness ==
  /\ LastReadFailed
  /\ last.frame_id \in FreeSet
  /\ Occupied # {}

\* C3: in the base and in the tenant-aware pool, no page id is the occupant
\* of two frames.
C3_AtMostOneResident ==
  \A f, g \in Occupied : frames[f].page_id = frames[g].page_id => f = g

\* the tenant-aware pool holds two pages and the last request was a hit
C3_Witness ==
  /\ policy = "USER_AWARE"
  /\ last.op = "get_llm_page"
  /\ last.hit
  /\ Cardinality(Occupied) = 2

\* C4: when pool_size is at least the number of distinct pages requested,
\* the number of disk reads is the number of distinct requested pages that
\* exist in the file, however often each was requested.
C4_ReadsAreDistinctPages ==
  pool_size >= Cardinality(requested) =>
    disk.read_count =
      Cardinality({p \in requested : p < Len(disk.file)})

\* two pages were requested, one of them again, and one page that is not in
\* the file
C4_Witness ==
  /\ pool_size >= Cardinality(requested)
  /\ Cardinality(requested) = 2
  /\ last.op = "get_page"
  /\ last.hit
  /\ disk.read_count = 1

\* C5: get_page on a resident page returns the cached page, adds one to
\* hits, sets the frame's last_accessed to the incremented counter and its
\* clock bit, and leaves the disk, the page table, the free list, the dirty
\* flags, misses, evictions and every other frame as they were.
C5_HitEffect ==
  [][(GetPageStep /\ last'.page_id \in DOMAIN page_table) =>
       LET f == page_table[last'.page_id]
       IN /\ last'.ret = frames[f].page
          /\ last'.io = <<>>
          /\ hits' = hits + 1
          /\ frames'[f].last_accessed = access_counter'
          /\ frames'[f].clock_bit
          /\ frames' = [frames EXCEPT ![f].last_accessed = access_counter + 1,
                                      ![f].clock_bit = TRUE,
                                      ![f].access_frequency = @ + 1]
          /\ UNCHANGED <<page_table, free_frames, disk, misses, evictions,
                         clock_hand>>]_vars

\* a hit on a page the caller had marked dirty
C5_Witness ==
  /\ last.op = "get_page"
  /\ last.hit
  /\ frames[last.frame_id].is_dirty
  /\ frames[last.frame_id].clock_bit

\* C6: a miss takes its frame from the free list whenever the list is not
\* empty, and a step that starts with a free frame evicts nothing and runs no
\* eviction policy.
C6_FreeFrameFirst ==
  [][free_frames # <<>> =>
       /\ evictions' = evictions
       /\ clock_hand' = clock_hand
       /\ (GetPageStep /\ ~last'.hit) =>
            /\ last'.frame_id = free_frames[Len(free_frames)]
            /\ last'.victim_frame = None]_vars

\* after an eviction, a miss that found a frame in the free list
C6_Witness ==
  /\ LastMiss
  /\ evictions > 0
  /\ last.victim_frame = None
  /\ last.frame_id # None
  /\ last.ret # None

\* C7: when the read of the requested page fails, get_page returns None, the
\* frame obtained is in the free list exactly once and holds no page, and the
\* page table has no entry for the requested page.
C7_ReadFailure ==
  LastReadFailed =>
    /\ last.ret = None
    /\ Cardinality({i \in DOMAIN free_frames :
                      free_frames[i] = last.frame_id}) = 1
    /\ frames[last.frame_id].page = None
    /\ frames[last.frame_id].page_id = None
    /\ last.page_id \notin DOMAIN page_table

\* the read of a page of the file raised, after a page was evicted for it
C7_Witness ==
  /\ LastReadFailed
  /\ last.page_id < Len(disk.file)
  /\ last.victim_frame # None

\* C8: after a successful miss the page occupies the obtained frame, the
\* page table maps it there, the frame is clean, and last_accessed and the
\* clock bit are reset: nothing of the previous occupant is left.
C8_InstallResetsFrame ==
  (LastMiss /\ last.ret # None) =>
    LET f == last.frame_id
    IN /\ frames[f].page = last.ret
       /\ frames[f].page_id = last.page_id
       /\ last.page_id \in DOMAIN page_table
       /\ page_table[last.page_id] = f
       /\ ~frames[f].is_dirty
       /\ frames[f].last_accessed = access_counter
       /\ frames[f].clock_bit = BufferFrame(f).clock_bit

\* the occupied frame with the least last_accessed, the lowest index first
LRUVictim ==
  CHOOSE f \in Occupied :
    \A g \in Occupied :
      \/ frames[f].last_accessed < frames[g].last_accessed
      \/ frames[f].last_accessed = frames[g].last_accessed /\ f <= g

\* the write_page calls of a call's disk calls
Writes(io) == {i \in DOMAIN io : io[i].op = "write"}

C10_LRUEvictsOldest ==
  [][(policy = "LRU" /\ free_frames = <<>> /\ GetPageStep /\ ~last'.hit) =>
       last'.victim_frame = LRUVictim]_vars

\* the smaller of two numbers
Min(a, b) == IF a <= b THEN a ELSE b

\* C11: with policy LRU and requests for pages of the file only, every
\* request returns its page and the resident pages are min(pool_size,
\* distinct) of the requested pages, the most recently requested among them.
C11_LRUMostRecentResident ==
  (/\ policy = "LRU"
   /\ last.op = "get_page"
   /\ \A p \in requested : p < Len(disk.file)) =>
    /\ last.ret # None
    /\ last.page_id \in DOMAIN page_table
    /\ DOMAIN page_table \subseteq requested
    /\ Cardinality(DOMAIN page_table) =
         Min(pool_size, Cardinality(requested))

\* C12: with policy FIFO and a full pool, the victim of a miss is the
\* resident page installed earliest. A frame that was not hit since its page
\* was installed has access_frequency 1, and its last_accessed is the access
\* counter of the installation.
C12_FIFOEvictsEarliestInstalled ==
  [][(/\ policy = "FIFO"
      /\ free_frames = <<>>
      /\ GetPageStep
      /\ ~last'.hit
      /\ \A f \in Occupied : frames[f].access_frequency = 1) =>
       /\ last'.victim_frame \in Occupied
       /\ \A g \in Occupied :
            frames[last'.victim_frame].last_accessed
              <= frames[g].last_accessed]_vars

\* the frame that the k-th inspection of a scan looks at, counting from 0
ClockScan(k) == (clock_hand + k) % pool_size

\* the inspections of one revolution that find the reference bit false
ClockUnreferenced ==
  {k \in 0..(pool_size - 1) : ~frames[ClockScan(k)].clock_bit}

\* this step is a get_page that has to evict
EvictingMiss == GetPageStep /\ ~last'.hit /\ free_frames = <<>>

C14_ClockAllReferenced ==
  [][(/\ policy = "CLOCK"
      /\ EvictingMiss
      /\ \A f \in DOMAIN frames : frames[f].clock_bit) =>
       /\ last'.victim_frame = clock_hand
       /\ last'.frame_id = clock_hand
       /\ \A f \in DOMAIN frames \ {clock_hand} :
            frames'[f] = [frames[f] EXCEPT !.clock_bit = FALSE]
       /\ last'.page_id < Len(disk.file) => last'.ret # None]_vars

\* C15: under every policy, base and tenant-aware, a miss obtains a frame,
\* from the free list or from the victim search, so that a request whose
\* read does not fail returns its page.
C15_FrameAlwaysObtained ==
  (last.op \in {"get_page", "get_llm_page"} /\ ~last.hit) =>
    /\ last.frame_id # None
    /\ (last.op = "get_llm_page" \/ ~LastReadFailed) => last.ret # None

\* the frames that flush_all_dirty_pages writes
DirtyFrames ==
  {f \in DOMAIN frames : frames[f].is_dirty /\ frames[f].page # None}

\* C16: flush_all_dirty_pages calls write_page once for every dirty frame,
\* with the frame's page, and for nothing else; afterwards the file holds
\* these pages and no frame is dirty; the page table, the occupants, the free
\* list, the recency metadata and the counters are as before.
C16_FlushWritesAllEvictsNone ==
  [][last'.op = "flush_all_dirty_pages" =>
       /\ Len(last'.io) = Cardinality(DirtyFrames)
       /\ \A f \in DirtyFrames :
            /\ Cardinality({i \in Writes(last'.io) :
                  /\ last'.io[i].page_id = frames[f].page_id
                  /\ last'.io[i].content = frames[f].page}) = 1
            /\ disk'.file[frames[f].page_id + 1] = frames[f].page
       /\ disk'.write_count = disk.write_count + Cardinality(DirtyFrames)
       /\ frames' = [f \in DOMAIN frames |->
                       [frames[f] EXCEPT !.is_dirty = FALSE]]
       /\ UNCHANGED <<page_table, free_frames, access_counter, clock_hand,
                      hits, misses, evictions>>]_vars

\* a flush has written the one changed page of a pool that holds two pages
C16_Witness ==
  /\ last.op = "flush_all_dirty_pages"
  /\ Len(last.io) = 1
  /\ last.io[1].content > 1
  /\ disk.file[last.io[1].page_id + 1] = last.io[1].content
  /\ Cardinality(Occupied) = 2
  /\ DirtyFrames = {}

\* C17: a get_page whose write-back of the dirty victim failed does not
\* return a loaded page: the failure reaches the caller.
C17_WriteFailureReported ==
  (last.op = "get_page" /\ \E i \in Writes(last.io) : ~last.io[i].ok) =>
    last.ret = None

\* this step is a get_llm_page that has to evict
EvictingLLMMiss ==
  policy = "USER_AWARE" /\ free_frames = <<>> /\ misses' = misses + 1

\* the owner of frame f is active when the victim is chosen: get_llm_page
\* has registered the requesting tenant and recomputed is_active by then
OwnerActive(f) == user_sessions'[frames[f].user_id].is_active

\* C18: in the tenant-aware pool, when the pool is full and some occupied
\* frame belongs to an inactive tenant, get_llm_page of a non-resident page
\* returns the page and the evicted frame belongs to an inactive tenant,
\* whatever the priorities are.
C18_InactiveTenantEvictedFirst ==
  [][(EvictingLLMMiss /\ \E f \in Occupied : ~OwnerActive(f)) =>
       /\ last'.ret # None
       /\ last'.victim_frame \in Occupied
       /\ ~OwnerActive(last'.victim_frame)]_vars

\* frame f is before or equal to frame g in the order (owner is active,
\* priority, last access)
VictimOrder(f, g) ==
  LET a(x) == IF OwnerActive(x) THEN 1 ELSE 0
  IN \/ a(f) < a(g)
     \/ /\ a(f) = a(g)
        /\ \/ frames[f].priority < frames[g].priority
           \/ /\ frames[f].priority = frames[g].priority
              /\ frames[f].last_accessed <= frames[g].last_accessed

\* C19: the victim of the tenant-aware pool is the occupied frame that is
\* least in the order (owner is active, priority, last access).
C19_VictimIsLexicographicMinimum ==
  [][EvictingLLMMiss =>
       /\ last'.victim_frame \in Occupied
       /\ \A g \in Occupied : VictimOrder(last'.victim_frame, g)]_vars

\* C21: an eviction of the tenant-aware pool writes a dirty victim through
\* write_page, with its page and content, removes its page-table entry and
\* clears the frame.
C21_UserAwareEvictionWritesBack ==
  [][(policy = "USER_AWARE" /\ evictions' = evictions + 1) =>
       LET v == frames[last'.victim_frame]
       IN /\ v.is_dirty =>
               /\ Writes(last'.io) = {1}
               /\ last'.io[1].page_id = v.page_id
               /\ last'.io[1].content = v.page
               /\ disk'.write_count = disk.write_count + 1
          /\ v.page_id \notin DOMAIN page_table'
          /\ frames'[last'.victim_frame].page = None
          /\ frames'[last'.victim_frame].page_id = None
          /\ ~frames'[last'.victim_frame].is_dirty]_vars

\* C22: register_user_activity(t) adds a session for t if there is none,
\* sets t's last activity to now and recomputes is_active of every session
\* as now - last_activity <= activity_timeout: t is active, a tenant whose
\* last activity is older is inactive; nothing else changes.
C22_RegisterUserActivity ==
  [][last'.op = "register_user_activity" =>
       \E t \in UserIds :
         /\ DOMAIN user_sessions' = DOMAIN user_sessions \cup {t}
         /\ DOMAIN user_allocations' = DOMAIN user_allocations \cup {t}
         /\ user_sessions'[t].last_activity = now
         /\ user_sessions'[t].is_active
         /\ user_sessions'[t].allocated_pages =
              IF t \in DOMAIN user_sessions
              THEN user_sessions[t].allocated_pages ELSE 0
         /\ user_allocations'[t] =
              IF t \in DOMAIN user_allocations
              THEN user_allocations[t] ELSE 0
         /\ \A u \in DOMAIN user_sessions \ {t} :
              /\ user_sessions'[u].last_activity =
                   user_sessions[u].last_activity
              /\ user_sessions'[u].allocated_pages =
                   user_sessions[u].allocated_pages
              /\ user_allocations'[u] = user_allocations[u]
              /\ user_sessions'[u].is_active <=>
                   (now - user_sessions[u].last_activity <= activity_timeout)
         /\ UNCHANGED <<baseVars, active_user_evictions, now>>]_vars

\* a tenant has just registered and is active, and a tenant whose last
\* activity is older than the timeout has been set inactive
C22_Witness ==
  /\ last.op = "register_user_activity"
  /\ \E t, u \in DOMAIN user_sessions :
       /\ user_sessions[t].last_activity = now
       /\ user_sessions[t].is_active
       /\ now - user_sessions[u].last_activity > activity_timeout
       /\ ~user_sessions[u].is_active

\* the frames of the tenant-aware pool that tenant t owns
FramesOf(t) == {f \in Occupied : frames[f].user_id = t}

\* C23: in the tenant-aware pool, for every tenant both user_allocations and
\* the session's allocated_pages are the number of occupied frames the
\* tenant owns, and every owner has a session.
C23_AllocationsCountFrames ==
  policy = "USER_AWARE" =>
    /\ DOMAIN user_allocations = DOMAIN user_sessions
    /\ \A f \in Occupied : frames[f].user_id \in DOMAIN user_sessions
    /\ \A t \in DOMAIN user_sessions :
         /\ user_allocations[t] = Cardinality(FramesOf(t))
         /\ user_sessions[t].allocated_pages = Cardinality(FramesOf(t))

\* two tenants own one frame each, and the last request hit a page of the
\* other tenant
C23_Witness ==
  /\ policy = "USER_AWARE"
  /\ \A t \in UserIds :
       t \in DOMAIN user_allocations /\ user_allocations[t] = 1
  /\ last.op = "get_llm_page"
  /\ last.hit
  /\ now - user_sessions[frames[last.frame_id].user_id].last_activity > 0

\* C27: for every record with fields of 32 unsigned bits,
\* Order.from_bytes(Order.to_bytes(r)) is r, field by field, the price
\* included.
C27_OrderRoundTrip ==
  (last.op = "Order" /\ last.done) => last.ret = last.arg

\* the records of a page that DiskPage.from_bytes is to return
NonEmptySlots(orders) == SelectSeq(orders, LAMBDA o : o.order_id # 0)

\* C28: for a page of 0..RECORDS_PER_PAGE records,
\* DiskPage.from_bytes(id, page.to_bytes()) holds the records of the page in
\* their order, but for the records with id 0.
C28_PageRoundTrip ==
  (/\ last.op = "DiskPage"
   /\ last.done
   /\ Len(last.arg.orders) <= RECORDS_PER_PAGE) =>
    /\ "error" \notin DOMAIN last.ret
    /\ last.ret.page_id = last.arg.page_id
    /\ last.ret.orders = NonEmptySlots(last.arg.orders)

\* C29: DiskPage.from_bytes raises ValueError, and returns no page, for
\* an input whose length is not PAGE_SIZE, and returns a page of at most
\* RECORDS_PER_PAGE records for every input of PAGE_SIZE bytes.
C29_FromBytesLength ==
  (last.op = "bytes" /\ last.done) =>
    IF last.arg.len = PAGE_SIZE
    THEN /\ DOMAIN last.ret = {"page_id", "orders"}
         /\ Len(last.ret.orders) <= RECORDS_PER_PAGE
         /\ last.arg.fill = 0 <=> last.ret.orders = <<>>
    ELSE last.ret = ValueError

\* an input of PAGE_SIZE + 1 bytes was refused
C29_Witness ==
  /\ last.op = "bytes"
  /\ last.done
  /\ last.arg.len = PAGE_SIZE + 1
  /\ last.ret = ValueError

\* the file holds all PAGE_SIZE bytes of page page_id
FullPage(file, page_id) == Len(file) >= (page_id + 1) * PAGE_SIZE

\* C24: read_page(id) returns None when the file does not hold all
\* PAGE_SIZE bytes of [id*PAGE_SIZE, (id+1)*PAGE_SIZE), and returns a decoded
\* page of that id when it does and the read raises no I/O error.
C24_ReadPageFullRangeOnly ==
  last.op = "read_page" =>
    /\ ~FullPage(disk.file, last.page_id) => last.ret = NoPage
    /\ (FullPage(disk.file, last.page_id) /\ last.ok) =>
         /\ DOMAIN last.ret = {"page_id", "orders"}
         /\ last.ret.page_id = last.page_id
         /\ Len(last.ret.orders) <= RECORDS_PER_PAGE

\* a read of a page that the file holds in part returned None
C24_Witness ==
  /\ last.op = "read_page"
  /\ last.ok
  /\ Len(disk.file) > last.page_id * PAGE_SIZE
  /\ ~FullPage(disk.file, last.page_id)
  /\ last.ret = NoPage

\* C25: a write_page(p) that meets no I/O error returns True for every
\* page id: the file is extended with zero bytes up to p's range, p is
\* written at p.page_id * PAGE_SIZE, read_page(p.page_id) then returns p's
\* records (those of id 0 left out), and every other page the file held is
\* unchanged.
C25_WritePageThenRead ==
  [][(last'.op = "write_page" /\ last'.outcome = "ok") =>
       LET p == last'.page
       IN /\ last'.ret = TRUE
          /\ Len(disk'.file) = Max(Len(disk.file), (p.page_id + 1) * PAGE_SIZE)
          /\ \A i \in (Len(disk.file) + 1)..(p.page_id * PAGE_SIZE) :
               disk'.file[i] = 0
          /\ DiskManager_read_page(disk', p.page_id, TRUE)[1]
               = [page_id |-> p.page_id, orders |-> NonEmptySlots(p.orders)]
          /\ \A j \in DiskPageIds \ {p.page_id} :
               FullPage(disk.file, j) =>
                 ReadAt(disk'.file, j) = ReadAt(disk.file, j)]_vars

\* C26 as stated: every read_page call adds one to read_count and
\* PAGE_SIZE to bytes_read, every write_page call adds one to write_count and
\* PAGE_SIZE to bytes_written, reset_stats sets the counters to zero and
\* get_stats changes none.
C26_EveryCallCounted ==
  [][/\ last'.op = "read_page" =>
          /\ disk'.read_count = disk.read_count + 1
          /\ disk'.bytes_read = disk.bytes_read + PAGE_SIZE
     /\ last'.op = "write_page" =>
          /\ disk'.write_count = disk.write_count + 1
          /\ disk'.bytes_written = disk.bytes_written + PAGE_SIZE
     /\ last'.op = "reset_stats" => disk' = reset_stats(disk)
     /\ last'.op = "get_stats" => disk' = disk]_vars

\* C26, amended: a read_page call that returns a page adds one to
\* read_count and PAGE_SIZE to bytes_read, a write_page call that returns
\* True adds one to write_count and PAGE_SIZE to bytes_written, a call that
\* returns None or False changes no counter, reset_stats sets the counters
\* to zero and get_stats changes none.
C26_SuccessfulCallsCounted ==
  [][/\ last'.op = "read_page" =>
          /\ disk'.read_count
               = disk.read_count + (IF last'.ret = NoPage THEN 0 ELSE 1)
          /\ disk'.bytes_read
               = disk.bytes_read + (IF last'.ret = NoPage THEN 0 ELSE PAGE_SIZE)
          /\ disk'.write_count = disk.write_count
          /\ disk'.bytes_written = disk.bytes_written
     /\ last'.op = "write_page" =>
          /\ disk'.write_count
               = disk.write_count + (IF last'.ret THEN 1 ELSE 0)
          /\ disk'.bytes_written
               = disk.bytes_written + (IF last'.ret THEN PAGE_SIZE ELSE 0)
          /\ disk'.read_count = disk.read_count
          /\ disk'.bytes_read = disk.bytes_read
     /\ last'.op = "reset_stats" =>
          /\ disk'.read_count = 0 /\ disk'.bytes_read = 0
          /\ disk'.write_count = 0 /\ disk'.bytes_written = 0
          /\ disk'.file = disk.file
     /\ last'.op = "get_stats" => disk' = disk]_vars

\* a read that returned None after a counted write left the counters as
\* the write had set them
C26_Witness ==
  /\ last.op = "read_page"
  /\ last.ret = NoPage
  /\ disk.read_count = 0
  /\ disk.bytes_read = 0
  /\ disk.write_count = 1
  /\ disk.bytes_written = PAGE_SIZE

\* C30: a get_page call that evicts adds exactly one to evictions and no
\* other step changes the counter; in that step the victim's page-table entry
\* is removed, the victim frame loses its page and its dirty flag (it is left
\* empty and clean if the read of the requested page fails, and holds the
\* requested page, clean, otherwise), every other page-table entry stays, the
\* only new entry is the requested page's, and every other frame is
\* unchanged, but for the reference bits that the CLOCK scan clears.
C30_EvictionFrameEffect ==
  [][/\ (GetPageStep /\ last'.victim_frame # None) =>
          LET vf == last'.victim_frame
              vp == last'.victim_page
              p == last'.page_id
          IN /\ evictions' = evictions + 1
             /\ frames[vf].page_id = vp
             /\ vp \in DOMAIN page_table
             /\ page_table[vp] = vf
             /\ vp \notin DOMAIN page_table'
             /\ \A q \in DOMAIN page_table \ {vp} :
                  q \in DOMAIN page_table' /\ page_table'[q] = page_table[q]
             /\ DOMAIN page_table' \ DOMAIN page_table \subseteq {p}
             /\ ~frames'[vf].is_dirty
             /\ IF last'.ret = None
                THEN /\ frames'[vf].page = None
                     /\ frames'[vf].page_id = None
                     /\ p \notin DOMAIN page_table'
                ELSE /\ frames'[vf].page_id = p
                     /\ page_table'[p] = vf
             /\ \A f \in DOMAIN frames \ {vf} :
                  frames'[f] = [frames[f] EXCEPT
                                  !.clock_bit = IF policy = "CLOCK"
                                                THEN frames'[f].clock_bit
                                                ELSE @]
     /\ ~(GetPageStep /\ last'.victim_frame # None) =>
          evictions' = evictions]_vars

\* a dirty page was evicted for a page whose read failed: the frame is left
\* empty and clean, the other frame keeps its page-table entry
C30_Witness ==
  /\ last.op = "get_page"
  /\ last.victim_frame # None
  /\ Writes(last.io) # {}
  /\ last.ret = None
  /\ frames[last.victim_frame].page = None
  /\ ~frames[last.victim_frame].is_dirty
  /\ evictions = 1
  /\ Cardinality(DOMAIN page_table) = pool_size - 1
  /\ pool_size = MaxPoolSize

\* the read_page calls of a call's disk calls
Reads(io) == {i \in DOMAIN io : io[i].op = "read"}

\* C31: one get_page call makes at most one read_page call and at most one
\* write_page call, the write before the read, whatever their outcomes, and a
\* hit makes none.
C31_NoRetry ==
  last.op = "get_page" =>
    /\ Cardinality(Reads(last.io)) <= 1
    /\ Cardinality(Writes(last.io)) <= 1
    /\ Len(last.io) <= 2
    /\ \A i \in Reads(last.io) : last.io[i].page_id = last.page_id
    /\ last.hit => last.io = <<>>

\* a get_page whose write-back failed and whose read failed: one call each
C31_Witness ==
  /\ last.op = "get_page"
  /\ Len(last.io) = 2
  /\ last.io[1].op = "write" /\ ~last.io[1].ok
  /\ last.io[2].op = "read" /\ ~last.io[2].ok
  /\ last.ret = None

\* C32: every get_page call of a pool of at least one frame returns: its
\* victim search looks at no more than pool_size frames, under CLOCK, where
\* the hand has then moved by that number of frames, and under FIFO; a
\* call that finds a free frame or its page in the pool searches nothing.
C32_VictimSearchBounded ==
  [][GetPageStep =>
       /\ pool_size >= 1
       /\ last'.op = "get_page"
       /\ last'.inspected <= pool_size
       /\ (last'.hit \/ free_frames # <<>>) => last'.inspected = 0
       /\ (policy = "CLOCK" /\ EvictingMiss) =>
            /\ last'.inspected >= 1
            /\ clock_hand' = (clock_hand + last'.inspected) % pool_size]_vars

\* a CLOCK search that looked at every frame of a pool of two frames and
\* evicted the second
C32_Witness ==
  /\ policy = "CLOCK"
  /\ pool_size = 2
  /\ last.op = "get_page"
  /\ last.inspected = pool_size
  /\ last.victim_frame # None

\* the length a file has when it ends with the highest page of ids
LengthFor(ids) ==
  IF ids = {} THEN 0
  ELSE ((CHOOSE i \in ids : \A j \in ids : j <= i) + 1) * PAGE_SIZE

\* the file ends with the highest page written, when no write_page has failed
WholePages ==
  /\ Len(disk.file) >= LengthFor(requested)
  /\ ~last.failed =>
       /\ Len(disk.file) % PAGE_SIZE = 0
       /\ Len(disk.file) = LengthFor(requested)

\* C33: from an empty file, no write_page call makes the file shorter,
\* and after write_page calls of which none has failed the length of the file
\* is a multiple of PAGE_SIZE and is (highest page id written + 1) * PAGE_SIZE.
C33_FileLength ==
  [][/\ Len(disk'.file) >= Len(disk.file)
     /\ WholePages
     /\ WholePages']_vars

\* page 0 was written after page 1: the file keeps the length of two pages
C33_Witness ==
  /\ last.op = "write_page"
  /\ last.page.page_id = 0
  /\ last.ret
  /\ ~last.failed
  /\ requested = {0, 1}
  /\ Len(disk.file) = 2 * PAGE_SIZE

\* C34: the page that get_llm_page(page_id, user_id, page_type) returns is
\* owned by user_id and has type page_type, on a miss and on a hit.
C34_ReturnedPageIsRequesters ==
  (last.op = "get_llm_page" /\ last.ret # None) =>
    /\ frames[last.frame_id].page = last.ret
    /\ frames[last.frame_id].user_id = last.user_id
    /\ frames[last.frame_id].page_type = last.page_type

\* C35: flush_all_dirty_pages clears the dirty flag of a frame only if the
\* write_page call for the frame's page returned True; a frame whose write
\* failed stays dirty.
C35_FlushKeepsFailedDirty ==
  [][last'.op = "flush_all_dirty_pages" =>
       \A f \in DirtyFrames :
         (\E i \in Writes(last'.io) :
            /\ last'.io[i].page_id = frames[f].page_id
            /\ ~last'.io[i].ok) => frames'[f].is_dirty]_vars

\* the page requested in this step cannot be read: it lies beyond the end of
\* the file, or read_page was called and failed
Unreadable ==
  \/ last'.page_id >= Len(disk.file)
  \/ \E i \in Reads(last'.io) : ~last'.io[i].ok

\* C36: a get_page of an unreadable page with the pool full returns None
\* and has evicted a victim: evictions is one more, the victim's page-table
\* entry is gone so that a request for the victim page is a miss, and the
\* victim frame is empty and in the free list.
C36_FailedLoadHasEvicted ==
  [][(EvictingMiss /\ Unreadable) =>
       /\ last'.ret = None
       /\ evictions' = evictions + 1
       /\ last'.victim_frame \in Occupied
       /\ last'.victim_page = frames[last'.victim_frame].page_id
       /\ last'.victim_page \notin DOMAIN page_table'
       /\ frames'[last'.victim_frame].page = None
       /\ \E i \in DOMAIN free_frames' :
            free_frames'[i] = last'.victim_frame]_vars

\* C37: in the base manager the number of pages read from the file is the
\* number of resident pages plus the number of evictions, and is at most the
\* number of misses.
C37_ReadsAreResidentPlusEvicted ==
  policy \in BasePolicies =>
    /\ disk.read_count = Cardinality(DOMAIN page_table) + evictions
    /\ disk.bytes_read = disk.read_count * PAGE_SIZE
    /\ misses >= disk.read_count

\* a page was evicted for a page whose read failed, and a third page then
\* took the frame: three misses, two pages read, one resident, one evicted
C37_Witness ==
  /\ policy \in BasePolicies
  /\ misses = 3
  /\ disk.read_count = 2
  /\ evictions = 1
  /\ Cardinality(DOMAIN page_table) = 1

\* every occupied frame was last accessed at a call that has happened, and no
\* two occupied frames at the same call
DistinctStamps ==
  /\ \A f \in Occupied :
       frames[f].last_accessed >= 1 /\ frames[f].last_accessed <= access_counter
  /\ \A f, g \in Occupied :
       frames[f].last_accessed = frames[g].last_accessed => f = g

\* C38: in the base manager every get_page call, hit, miss or failure,
\* adds exactly one to access_counter and no other step changes it; every
\* occupied frame's last_accessed is at most the counter and no two occupied
\* frames have the same last_accessed.
C38_AccessCounter ==
  [][/\ hits' + misses' = hits + misses + 1 =>
          access_counter' = access_counter + 1
     /\ hits' + misses' = hits + misses => access_counter' = access_counter
     /\ access_counter' = hits' + misses'
     /\ DistinctStamps
     /\ DistinctStamps']_vars

\* three calls, one of them failed, have left two frames occupied
C38_Witness ==
  /\ policy \in BasePolicies
  /\ access_counter = 3
  /\ disk.read_count = 2
  /\ hits = 0
  /\ Cardinality(Occupied) = 2
  /\ \E f \in Occupied : frames[f].last_accessed = access_counter

\* a page of PAGE_SIZE zero bytes decodes to a page without records
ZeroPageHasNoRecords ==
  DiskPage_from_bytes(0, [i \in 1..PAGE_SIZE |-> 0])
    = [page_id |-> 0, orders |-> <<>>]

\* C39: a write_page(p) on a file that ends before page p makes every
\* page between the old end of the file and p present: read_page returned
\* None for it before and returns a page of zero bytes, which has no records,
\* afterwards; get_page of such a never-written page returns that page and
\* caches it whenever it obtains a frame, and a later get_page is a hit on it.
C39_GapPagesPresentButZero ==
  [][/\ ZeroPageHasNoRecords
     /\ last'.op = "write_page" =>
          /\ Len(disk'.file) >= last'.page_id + 1
          /\ \A j \in PageIds :
               (j >= Len(disk.file) /\ j < last'.page_id) =>
                 /\ j \notin requested'
                 /\ read_page(disk, j, TRUE)[1] = None
                 /\ read_page(disk', j, TRUE)[1] = ZeroPage
     /\ (/\ last'.op = "get_page"
         /\ last'.page_id \notin requested
         /\ last'.page_id < Len(disk.file)
         /\ last'.frame_id # None) =>
          /\ last'.ret = ZeroPage
          /\ last'.page_id \in DOMAIN page_table'
          /\ page_table'[last'.page_id] = last'.frame_id
          /\ frames'[last'.frame_id].page = ZeroPage
          /\ frames'[last'.frame_id].page_id = last'.page_id]_vars

\* a hit on a cached page that was never written: page 2 alone was written
C39_Witness ==
  /\ requested = {2}
  /\ last.op = "get_page"
  /\ last.hit
  /\ last.page_id < 2
  /\ last.ret = ZeroPage
  /\ disk.read_count = 1

====
